---- MODULE Spec2Model ----
(***************************************************************************)
(* Model of the CI helper scripts of sdlc-demo:                            *)
(*   scripts/summarize_and_review.py  (diff -> findings -> markdown)       *)
(*   scripts/analyze_code.py          (linter outputs -> markdown)         *)
(*                                                                         *)
(* Text read from the outside (git output, linter output, paths, commit    *)
(* messages) is a sequence of one-character strings, so that the string    *)
(* methods and regular expressions of the scripts are computed character   *)
(* by character.  Text the scripts produce is a sequence in which every    *)
(* fixed literal of an f-string is one element and the interpolated        *)
(* values keep their characters.                                           *)
(***************************************************************************)
EXTENDS Integers, Sequences, FiniteSets, TLC

VARIABLES
    git,            \* results of the git commands of the checkout: name -> [out, err]
    disk,           \* size in bytes of a path on disk, -1 when the path does not exist
    pc,             \* position in main() of summarize_and_review.py
    stat, patch,    \* get_diff_stat_and_patch()
    fallback,       \* whether get_diff_stat_and_patch took its 'git show' branch
    binaries, changed_files, heavy_files,
    eng_summary, todos, review_recs,
    md,             \* text returned by build_markdown_report
    md_file,        \* contents of outputs/summary_<branch>_<sha>.md
    prev_md,        \* md_file as left by the previous run over the same checkout
    runs,           \* number of runs of main() started over this checkout
    tool_out,       \* analyze_code.py: stdout of each linter command
    lint            \* analyze_code.py: module-level state of the script

vars == <<git, disk, pc, stat, patch, fallback, binaries, changed_files, heavy_files,
          eng_summary, todos, review_recs, md, md_file, prev_md, runs, tool_out, lint>>

reviewVars == <<git, disk, pc, stat, patch, fallback, binaries, changed_files,
                heavy_files, eng_summary, todos, review_recs, md, md_file, prev_md, runs>>

lintVars == <<tool_out, lint>>

----------------------------------------------------------------------------
(* Bounds of the model *)

MaxLines == 2       \* lines of a generated diff text
MaxStatLines == 2   \* lines of a generated stat text
MaxRuns == 2        \* runs of main() over one checkout

----------------------------------------------------------------------------
(* Characters *)

LowerCase == <<"a","b","c","d","e","f","g","h","i","j","k","l","m",
               "n","o","p","q","r","s","t","u","v","w","x","y","z">>
UpperCase == <<"A","B","C","D","E","F","G","H","I","J","K","L","M",
               "N","O","P","Q","R","S","T","U","V","W","X","Y","Z">>
DigitChars == <<"0","1","2","3","4","5","6","7","8","9">>

Range(f) == {f[i] : i \in DOMAIN f}

\* \s of re, and the characters str.strip() removes
WhiteSpace == {" ", "\t", "\n", "\r", "\f"}
\* the line boundaries of str.splitlines() that text read with text=True can hold
\* (universal newlines turn "\r\n" and "\r" into "\n")
LineBreaks == {"\n", "\f"}
\* \d
Digit == Range(DigitChars)
\* [A-Za-z_]
NameStart == Range(LowerCase) \cup Range(UpperCase) \cup {"_"}
\* \w
WordChar == NameStart \cup Digit

\* str.lower() of one character
LowerChar(c) ==
    IF c \in Range(UpperCase)
    THEN LowerCase[CHOOSE i \in DOMAIN UpperCase : UpperCase[i] = c]
    ELSE c

\* str.lower()
Lower(s) == [i \in DOMAIN s |-> LowerChar(s[i])]

----------------------------------------------------------------------------
(* String methods *)

\* s[i-1:i-1+len(p)] == p
ContainsAt(s, p, i) ==
    /\ i >= 1
    /\ i + Len(p) - 1 <= Len(s)
    /\ SubSeq(s, i, i + Len(p) - 1) = p

\* p in s
Contains(s, p) == \E i \in 1..(Len(s) - Len(p) + 1) : ContainsAt(s, p, i)

\* s.startswith(p)
StartsWith(s, p) == ContainsAt(s, p, 1)

\* s.endswith(p)
EndsWith(s, p) == ContainsAt(s, p, Len(s) - Len(p) + 1)

Min(S) == CHOOSE x \in S : \A y \in S : x <= y
Max(S) == CHOOSE x \in S : \A y \in S : x >= y

\* the members of a set of integers in increasing order
Sorted(S) == [k \in 1..Cardinality(S) |-> CHOOSE x \in S : Cardinality({y \in S : y <= x}) = k]

\* first index >= i of s whose character is outside class, Len(s)+1 if none
SkipWhile(s, i, class) ==
    LET out == {j \in i..Len(s) : s[j] \notin class}
    IN  IF out # {} THEN Min(out) ELSE Max({i, Len(s) + 1})

\* last index <= i of s whose character is outside class, 0 if none
SkipBack(s, i, class) ==
    LET out == {j \in 1..i : s[j] \notin class}
    IN  IF out # {} THEN Max(out) ELSE 0

\* s.strip()
Strip(s) == SubSeq(s, SkipWhile(s, 1, WhiteSpace), SkipBack(s, Len(s), WhiteSpace))

\* s.splitlines(): the text between line boundaries; no line after the last boundary
\* when nothing follows it
SplitLines(s) ==
    LET ends == Sorted({i \in 1..Len(s) : s[i] \in LineBreaks})
        n == Len(ends)
        first(k) == IF k = 1 THEN 1 ELSE ends[k - 1] + 1
        last == IF n = 0 THEN 0 ELSE ends[n]
        closed == [k \in 1..n |-> SubSeq(s, first(k), ends[k] - 1)]
    IN  IF last < Len(s) THEN Append(closed, SubSeq(s, last + 1, Len(s))) ELSE closed

\* s.split(sep)[0], sep one character
FirstPart(s, sep) ==
    LET at == {i \in 1..Len(s) : s[i] = sep}
    IN  IF at = {} THEN s ELSE SubSeq(s, 1, Min(at) - 1)

\* sep.join(parts[lo..hi])
RECURSIVE JoinRange(_, _, _, _)
JoinRange(parts, sep, lo, hi) ==
    IF lo > hi THEN <<>>
    ELSE IF lo = hi THEN parts[lo]
    ELSE LET mid == (lo + hi) \div 2
         IN  JoinRange(parts, sep, lo, mid) \o sep \o JoinRange(parts, sep, mid + 1, hi)

\* sep.join(parts)
Join(parts, sep) == JoinRange(parts, sep, 1, Len(parts))

\* str(n) of a non-negative integer
RECURSIVE IntToStr(_)
IntToStr(n) ==
    IF n < 10 THEN <<DigitChars[n + 1]>>
    ELSE Append(IntToStr(n \div 10), DigitChars[(n % 10) + 1])

----------------------------------------------------------------------------
(* Regular expressions of summarize_and_review.py *)

\* kw\s+([A-Za-z_]\w*)\s*[closers] matched at index i of s: the name, <<>> if no match
KeywordName(s, i, kw, closers) ==
    LET a == i + Len(kw)
        b == SkipWhile(s, a, WhiteSpace)
        c == SkipWhile(s, b, WordChar)
        d == SkipWhile(s, c, WhiteSpace)
    IN  IF /\ ContainsAt(s, kw, i)
           /\ b > a
           /\ b <= Len(s) /\ s[b] \in NameStart
           /\ d <= Len(s) /\ s[d] \in closers
        THEN SubSeq(s, b, c - 1)
        ELSE <<>>

\* re.match(r"def\s+([A-Za-z_]\w*)\s*\(", code): group 1, <<>> if no match
MatchDef(code) == KeywordName(code, 1, <<"d", "e", "f">>, {"("})

\* re.match(r"class\s+([A-Za-z_]\w*)\s*[:\(]", code): group 1, <<>> if no match
MatchClass(code) == KeywordName(code, 1, <<"c", "l", "a", "s", "s">>, {":", "("})

\* re.search(r"\bprint\s*\(", code)
SearchPrint(code) ==
    \E i \in 1..Len(code) :
        /\ ContainsAt(code, <<"p", "r", "i", "n", "t">>, i)
        /\ (i = 1 \/ code[i - 1] \notin WordChar)
        /\ LET j == SkipWhile(code, i + 5, WhiteSpace)
           IN  j <= Len(code) /\ code[j] = "("

\* re.findall(r'^\+.*def\s+([A-Za-z_]\w*)\s*\(', patch, flags=re.MULTILINE) is not
\* empty: ^ is the start of the text or the position after a "\n", . is any
\* character but "\n", \s includes "\n"
FindAddedDef(text) ==
    \E p \in 1..Len(text) :
        /\ (p = 1 \/ text[p - 1] = "\n")
        /\ text[p] = "+"
        /\ \E q \in (p + 1)..Len(text) :
              /\ \A k \in (p + 1)..(q - 1) : text[k] # "\n"
              /\ KeywordName(text, q, <<"d", "e", "f">>, {"("}) # <<>>

\* re.search(r"password|secret|api_key|token", patch, flags=re.IGNORECASE)
SearchSecret(text) ==
    \E w \in {<<"p", "a", "s", "s", "w", "o", "r", "d">>, <<"s", "e", "c", "r", "e", "t">>, <<"a", "p", "i", "_", "k", "e", "y">>, <<"t", "o", "k", "e", "n">>} : Contains(Lower(text), w)

\* MatchSummary for r'^\d+ file changed'
MatchSummarySingular(line) ==
    ContainsAt(line, <<" ", "f", "i", "l", "e", " ", "c", "h", "a", "n", "g", "e", "d">>, SkipWhile(line, 1, Digit)) /\ SkipWhile(line, 1, Digit) > 1

\* re.match(r'^\d+ file(s)? changed', line)
MatchSummary(line) ==
    LET d == SkipWhile(line, 1, Digit)
    IN  /\ d > 1
        /\ \/ ContainsAt(line, <<" ", "f", "i", "l", "e", " ", "c", "h", "a", "n", "g", "e", "d">>, d)
           \/ ContainsAt(line, <<" ", "f", "i", "l", "e", "s", " ", "c", "h", "a", "n", "g", "e", "d">>, d)

----------------------------------------------------------------------------
(* summarize_and_review.py: the functions.  Literals are written in the   *)
(* characters a TLA+ string can hold: the em dash of the source as "--",   *)
(* its backquote as "'".                                                   *)

\* lines 36-37, GITHUB_REF and GITHUB_SHA not set
branch == "unknown-branch"
sha == "unknown"

\* run(cmd): completed.stdout or completed.stderr
run(cmd) == IF git[cmd].out # <<>> THEN git[cmd].out ELSE git[cmd].err

\* get_diff_stat_and_patch(): [stat, patch, fallback]
get_diff_stat_and_patch ==
    LET stat1 == run("diff_stat")
        patch1 == run("diff_patch")
    IN  IF Strip(stat1) = <<>>
        THEN [stat |-> Strip(run("show_stat")), patch |-> run("show_patch"),
              fallback |-> TRUE]
        ELSE [stat |-> Strip(stat1), patch |-> patch1, fallback |-> FALSE]

IsBinaryLine(line) == Contains(line, <<"B", "i", "n", "a", "r", "y", " ", "f", "i", "l", "e", "s", " ">>) /\ Contains(line, <<" ", "d", "i", "f", "f", "e", "r">>)

detect_binary_files(patch_text) ==
    LET ls == SelectSeq(SplitLines(patch_text), IsBinaryLine)
    IN  [i \in DOMAIN ls |-> Strip(ls[i])]

\* Path(p).stat().st_size when Path(p).exists(), else -1
FileSize(p) == IF p \in DOMAIN disk THEN disk[p] ELSE -1

IsHeavy(p) == FileSize(p) >= 0 /\ FileSize(p) > 500 * 1024

size_checks_for_files(files) ==
    LET hs == SelectSeq(files, IsHeavy)
    IN  [i \in DOMAIN hs |-> <<hs[i], FileSize(hs[i])>>]

IsStatPathLine(line) == Strip(line) # <<>> /\ ~MatchSummary(Strip(line))

list_changed_files_from_stat(stat_text) ==
    LET ls == SelectSeq(SplitLines(stat_text), IsStatPathLine)
    IN  [i \in DOMAIN ls |-> Strip(FirstPart(Strip(ls[i]), "|"))]

\* s.replace(old, ""), scanning from index i
RECURSIVE RemoveAll(_, _, _)
RemoveAll(s, old, i) ==
    LET at == {k \in i..Len(s) : ContainsAt(s, old, k)}
    IN  IF at = {} THEN SubSeq(s, i, Len(s))
        ELSE SubSeq(s, i, Min(at) - 1) \o RemoveAll(s, old, Min(at) + Len(old))

\* the locals of english_summary_from_patch before its loop; current_file is not
\* bound until a "+++ b/" line is read
ScanInit ==
    [results |-> <<>>, added_funcs |-> <<>>, removed_funcs |-> <<>>,
     modified_files |-> {}, todos |-> <<>>,
     bound |-> FALSE, current_file |-> <<>>, raised |-> FALSE]

HasTodo(code) == Contains(code, <<"T", "O", "D", "O">>) \/ Contains(code, <<"F", "I", "X", "M", "E">>)

\* lines 110-112
ScanHeader(a, line) ==
    IF StartsWith(line, <<"+", "+", "+", " ", "b", "/">>)
    THEN LET f == Strip(RemoveAll(line, <<"+", "+", "+", " ", "b", "/">>, 1))
         IN  [a EXCEPT !.current_file = f, !.bound = TRUE,
                       !.modified_files = @ \cup {f}]
    ELSE a

\* results.append(f"...{current_file}..."): UnboundLocalError when current_file
\* has not been assigned
AppendResult(a, cond, before, after) ==
    IF ~cond \/ a.raised THEN a
    ELSE IF ~a.bound THEN [a EXCEPT !.raised = TRUE]
    ELSE [a EXCEPT !.results = Append(@, before \o a.current_file \o after)]

\* lines 116-118
AddedDef(a, code) ==
    IF MatchDef(code) # <<>>
    THEN [a EXCEPT !.added_funcs = Append(@, MatchDef(code))]
    ELSE a

\* lines 119-121
AddedClass(a, code) ==
    AppendResult(a, MatchClass(code) # <<>>,
                 <<"Introduced class '">> \o MatchClass(code) \o <<"' in '">>, <<"'.">>)

\* lines 122-123 and 134-135
FoundTodo(a, code) ==
    IF HasTodo(code) /\ ~a.raised THEN [a EXCEPT !.todos = Append(@, code)] ELSE a

\* lines 124-125
AddedPrint(a, code) ==
    AppendResult(a, SearchPrint(code),
                 <<"Added print/logging statement in '">>, <<"': '">> \o code \o <<"'">>)

\* lines 127-128
AddedAssignment(a, code) ==
    AppendResult(a, Contains(code, <<"=">>) /\ ~StartsWith(code, <<"#">>),
                 <<"Added/changed assignment or expression in '">>,
                 <<"': '">> \o SubSeq(code, 1, Min({Len(code), 120})) \o <<"'">>)

\* lines 114-128, code = line[1:].strip()
ScanAddedCode(a, code) ==
    AddedAssignment(AddedPrint(FoundTodo(AddedClass(AddedDef(a, code), code), code),
                               code), code)

\* lines 113-128
ScanAdded(a, line) ==
    IF ~a.raised /\ StartsWith(line, <<"+">>) /\ ~StartsWith(line, <<"+", "+", "+">>)
    THEN ScanAddedCode(a, Strip(Tail(line)))
    ELSE a

\* lines 131-133
RemovedDef(a, code) ==
    IF MatchDef(code) # <<>>
    THEN [a EXCEPT !.removed_funcs = Append(@, MatchDef(code))]
    ELSE a

\* lines 130-135, code = line[1:].strip()
ScanRemovedCode(a, code) == FoundTodo(RemovedDef(a, code), code)

\* ScanRemoved taking every line that is not an added one for a removed line
ScanRemovedAnyLine(a, line) ==
    IF ~a.raised /\ ~StartsWith(line, <<"+">>) /\ ~StartsWith(line, <<"-", "-", "-">>)
    THEN ScanRemovedCode(a, Strip(Tail(line)))
    ELSE a

\* lines 129-135
ScanRemoved(a, line) ==
    IF ~a.raised /\ StartsWith(line, <<"-">>) /\ ~StartsWith(line, <<"-", "-", "-">>)
    THEN ScanRemovedCode(a, Strip(Tail(line)))
    ELSE a

\* one iteration of the loop of lines 109-135; nothing runs after an exception
ScanLine(a, line) ==
    IF a.raised THEN a ELSE ScanRemoved(ScanAdded(ScanHeader(a, line), line), line)

RECURSIVE ScanLines(_, _, _)
ScanLines(a, lines, i) ==
    IF i > Len(lines) THEN a ELSE ScanLines(ScanLine(a, lines[i]), lines, i + 1)

\* the locals of english_summary_from_patch after its loop
ScanPatch(patch_text) == ScanLines(ScanInit, SplitLines(patch_text), 1)

\* the orders in which iterating over set(S) can yield the members of S
Orderings(S) == {o \in [1..Cardinality(S) -> S] : Range(o) = S}

\* lines 143-146
RECURSIVE Dedup(_, _, _)
Dedup(results, i, dedup) ==
    IF i > Len(results) THEN dedup
    ELSE IF \E k \in DOMAIN dedup : dedup[k] = results[i]
         THEN Dedup(results, i + 1, dedup)
         ELSE Dedup(results, i + 1, Append(dedup, results[i]))

AddedEntry(fn) == <<"Added function '">> \o fn \o <<"()'.">>
RemovedEntry(fn) == <<"Removed function '">> \o fn \o <<"()'.">>

\* Summarize with the loop of lines 140-141 iterating over added_funcs
SummarizeAddedTwice(a, added_order, removed_order) ==
    IF a.raised THEN [raised |-> TRUE, eng_summary |-> <<>>, todos |-> <<>>]
    ELSE [raised |-> FALSE,
          eng_summary |->
              Dedup(a.results
                    \o [i \in DOMAIN added_order |-> AddedEntry(added_order[i])]
                    \o [i \in DOMAIN added_order |-> RemovedEntry(added_order[i])],
                    1, <<>>),
          todos |-> a.todos]

\* lines 136-147 on the locals a the loop leaves: [raised, eng_summary, todos]
Summarize(a, added_order, removed_order) ==
    IF a.raised THEN [raised |-> TRUE, eng_summary |-> <<>>, todos |-> <<>>]
    ELSE [raised |-> FALSE,
          eng_summary |->
              Dedup(a.results
                    \o [i \in DOMAIN added_order |-> AddedEntry(added_order[i])]
                    \o [i \in DOMAIN removed_order |-> RemovedEntry(removed_order[i])],
                    1, <<>>),
          todos |-> a.todos]

\* english_summary_from_patch(patch_text), with the orders in which set(added_funcs)
\* and set(removed_funcs) are iterated
english_summary_from_patch(patch_text, added_order, removed_order) ==
    Summarize(ScanPatch(patch_text), added_order, removed_order)

\* the pairs of orders in which the two sets of lines 137 and 140 can be iterated
SetOrders(a) == Orderings(Range(a.added_funcs)) \X Orderings(Range(a.removed_funcs))

IsSourcePath(p) == StartsWith(p, <<"s", "r", "c", "/">>) \/ StartsWith(p, <<"a", "p", "p", "/">>) \/ EndsWith(p, <<".", "p", "y">>)
\* IsTestPath without the "/tests/" in p test
IsTestPathByPrefix(p) == StartsWith(p, <<"t", "e", "s", "t", "s", "/">>) \/ StartsWith(p, <<"t", "e", "s", "t", "_">>)

IsTestPath(p) == StartsWith(p, <<"t", "e", "s", "t", "s", "/">>) \/ StartsWith(p, <<"t", "e", "s", "t", "_">>) \/ Contains(p, <<"/", "t", "e", "s", "t", "s", "/">>)

simple_test_detection(files) ==
    LET src_changed == \E i \in DOMAIN files : IsSourcePath(files[i])
        test_changed == \E i \in DOMAIN files : IsTestPath(files[i])
    IN  src_changed /\ ~test_changed

commit_message_hint == Strip(run("log"))

REC_TODO == "Resolve TODO/FIXME items before merging; they often indicate incomplete logic or edge cases."
REC_BINARY == "Binary files changed -- ensure these are intended (e.g., models, images). Prefer storing large artifacts in releases or object storage."
REC_LARGE == "Large file changes detected; consider storing large assets outside the repo (S3/GCS) and reference them instead."
REC_TESTS == "Code changes detected without test changes -- add unit/integration tests focused on the modified modules."
REC_COMMIT == "Commit message is short or missing. Use descriptive commit messages: [TYPE] scope: short description (e.g., feat(auth): add token refresh)."
REC_DOCS == "New functions added; ensure they include docstrings and are covered by unit tests."
REC_SECRET == "Possible secrets detected in diff -- ensure secrets are stored in secure secrets manager and not committed."
REC_LINT == "Run automated linters/formatters (e.g., black/isort/flake8 for Python) and fail the CI on lint errors."
REC_REVIEW == "For changes touching infra/CI/CD or dependencies, require at least one approving review and run full integration tests."

When(cond, rec) == IF cond THEN <<rec>> ELSE <<>>

\* not cm or len(cm.splitlines()[0]) < 10
ShortMessage(cm) == cm = <<>> \/ Len(SplitLines(cm)[1]) < 10

\* build_review_recommendations appending the first recommendation once per TODO
build_review_recommendations_per_todo(files, patch_text, todo_list, binary_list, heavy_list) ==
    [i \in DOMAIN todo_list |-> REC_TODO]
    \o When(binary_list # <<>>, REC_BINARY)
    \o When(heavy_list # <<>>, REC_LARGE)
    \o When(simple_test_detection(files), REC_TESTS)
    \o When(ShortMessage(commit_message_hint), REC_COMMIT)
    \o When(FindAddedDef(patch_text), REC_DOCS)
    \o When(SearchSecret(patch_text), REC_SECRET)
    \o <<REC_LINT>>
    \o <<REC_REVIEW>>

build_review_recommendations(files, patch_text, todo_list, binary_list, heavy_list) ==
    When(todo_list # <<>>, REC_TODO)
    \o When(binary_list # <<>>, REC_BINARY)
    \o When(heavy_list # <<>>, REC_LARGE)
    \o When(simple_test_detection(files), REC_TESTS)
    \o When(ShortMessage(commit_message_hint), REC_COMMIT)
    \o When(FindAddedDef(patch_text), REC_DOCS)
    \o When(SearchSecret(patch_text), REC_SECRET)
    \o <<REC_LINT>>
    \o <<REC_REVIEW>>

H_STAT == "## Changed files (stat)"
NO_STAT == "_No file stat available._"
H_SUMMARY == "## English Summary (automated)"
NO_SUMMARY == "_No clear high-level changes detected by heuristics._"
H_TODO == "## TODO / FIXME found"
H_BINARY == "## Binary files changed (warning)"
H_LARGE == "## Large file changes (>= 500 KB)"
H_REVIEW == "## Review: Automated code & process recommendations"
NO_RECS == "- No automatic recommendations generated."
H_DIFF == "## Raw Diff"

\* md.append(f"- {x}") for x in xs
Bullets(xs) == [i \in DOMAIN xs |-> <<"- ">> \o xs[i]]

\* lines 165-171
StatSection(stat_text) ==
    IF stat_text # <<>>
    THEN << <<H_STAT>>, <<"'''">>, Strip(stat_text), <<"'''">> >>
    ELSE << <<NO_STAT>> >>

\* lines 173-179
SummarySection(summary) ==
    IF summary # <<>>
    THEN << <<H_SUMMARY>> >> \o Bullets(summary)
    ELSE << <<H_SUMMARY>>, <<NO_SUMMARY>> >>

\* TodoSection without the test of line 181
TodoSectionAlways(todo_list) ==
    << <<H_TODO>> >>
    \o [i \in 1..Min({Len(todo_list), 20}) |-> <<"- '">> \o Strip(todo_list[i]) \o <<"'">>]
    \o << <<>> >>

\* lines 181-185
TodoSection(todo_list) ==
    IF todo_list # <<>>
    THEN << <<H_TODO>> >>
         \o [i \in 1..Min({Len(todo_list), 20}) |-> <<"- '">> \o Strip(todo_list[i]) \o <<"'">>]
         \o << <<>> >>
    ELSE <<>>

\* lines 186-190
BinarySection(binary_list) ==
    IF binary_list # <<>>
    THEN << <<H_BINARY>> >> \o Bullets(binary_list) \o << <<>> >>
    ELSE <<>>

\* lines 191-195
LargeSection(heavy_list) ==
    IF heavy_list # <<>>
    THEN << <<H_LARGE>> >>
         \o [i \in DOMAIN heavy_list |->
                <<"- '">> \o heavy_list[i][1] \o <<"' -- ">>
                \o IntToStr(heavy_list[i][2]) \o <<" bytes">>]
         \o << <<>> >>
    ELSE <<>>

\* lines 197-204
ReviewSection(recs) ==
    << <<H_REVIEW>>, <<>> >>
    \o (IF recs # <<>>
        THEN [i \in DOMAIN recs |-> <<"- ", recs[i]>>]
        ELSE << <<NO_RECS>> >>)
    \o << <<>> >>

\* lines 205-208
DiffSection(patch_text) ==
    << <<H_DIFF>>, <<"'''diff">>, Strip(patch_text), <<"'''">> >>

\* build_markdown_report(...), with the value datetime.utcnow() returns
build_markdown_report(stat_text, patch_text, summary, todo_list, binary_list, heavy_list, files, recs, now) ==
    Join(<< <<"# Code summary -- '", branch, "' @ '", sha, "'">>,
            <<"*Generated: ", now, "Z", "*">>,
            <<>> >>
         \o StatSection(stat_text)
         \o << <<>> >>
         \o SummarySection(summary)
         \o << <<>> >>
         \o TodoSection(todo_list)
         \o BinarySection(binary_list)
         \o LargeSection(heavy_list)
         \o ReviewSection(recs)
         \o DiffSection(patch_text),
         <<"\n">>)

----------------------------------------------------------------------------
(* summarize_and_review.py: main() *)

\* values datetime.utcnow().isoformat() can take at the time of a run
Clock == {"2025-01-01T00:00:00", "2025-01-01T00:00:01"}

EnsureFetchHistory ==
    /\ pc = "start"
    /\ pc' = "fetched"
    /\ UNCHANGED <<git, disk, stat, patch, fallback, binaries, changed_files, heavy_files,
                   eng_summary, todos, review_recs, md, md_file, prev_md, runs>>
    /\ UNCHANGED lintVars

\* stat, patch = r
DiffReturned(r) ==
    /\ stat' = r.stat
    /\ patch' = r.patch
    /\ fallback' = r.fallback

GetDiffStatAndPatch ==
    /\ pc = "fetched"
    /\ DiffReturned(get_diff_stat_and_patch)
    /\ pc' = "collected"
    /\ UNCHANGED <<git, disk, binaries, changed_files, heavy_files,
                   eng_summary, todos, review_recs, md, md_file, prev_md, runs>>
    /\ UNCHANGED lintVars

DetectBinaryFiles ==
    /\ pc = "collected"
    /\ binaries' = detect_binary_files(patch)
    /\ pc' = "binaries"
    /\ UNCHANGED <<git, disk, stat, patch, fallback, changed_files, heavy_files,
                   eng_summary, todos, review_recs, md, md_file, prev_md, runs>>
    /\ UNCHANGED lintVars

ListChangedFiles ==
    /\ pc = "binaries"
    /\ changed_files' = IF stat # <<>> THEN list_changed_files_from_stat(stat) ELSE <<>>
    /\ pc' = "files"
    /\ UNCHANGED <<git, disk, stat, patch, fallback, binaries, heavy_files,
                   eng_summary, todos, review_recs, md, md_file, prev_md, runs>>
    /\ UNCHANGED lintVars

SizeChecks ==
    /\ pc = "files"
    /\ heavy_files' = size_checks_for_files(changed_files)
    /\ pc' = "sizes"
    /\ UNCHANGED <<git, disk, stat, patch, fallback, binaries, changed_files,
                   eng_summary, todos, review_recs, md, md_file, prev_md, runs>>
    /\ UNCHANGED lintVars

\* eng_summary, todos, _ = r; an exception ends main()
SummaryReturned(r) ==
    /\ eng_summary' = r.eng_summary
    /\ todos' = r.todos
    /\ pc' = IF r.raised THEN "raised" ELSE "summary"

EnglishSummary ==
    /\ pc = "sizes"
    /\ \E o \in SetOrders(ScanPatch(patch)) :
          SummaryReturned(english_summary_from_patch(patch, o[1], o[2]))
    /\ UNCHANGED <<git, disk, stat, patch, fallback, binaries, changed_files, heavy_files,
                   review_recs, md, md_file, prev_md, runs>>
    /\ UNCHANGED lintVars

BuildReviewRecommendations ==
    /\ pc = "summary"
    /\ review_recs' = build_review_recommendations(changed_files, patch, todos, binaries,
                                                   heavy_files)
    /\ pc' = "recs"
    /\ UNCHANGED <<git, disk, stat, patch, fallback, binaries, changed_files, heavy_files,
                   eng_summary, todos, md, md_file, prev_md, runs>>
    /\ UNCHANGED lintVars

BuildMarkdownReport ==
    /\ pc = "recs"
    /\ \E now \in Clock :
          md' = build_markdown_report(stat, patch, eng_summary, todos, binaries,
                                      heavy_files, changed_files, review_recs, now)
    /\ pc' = "report"
    /\ UNCHANGED <<git, disk, stat, patch, fallback, binaries, changed_files, heavy_files,
                   eng_summary, todos, review_recs, md_file, prev_md, runs>>
    /\ UNCHANGED lintVars

\* md_path.write_text(md, encoding="utf8")
\* (dump_pdf_from_markdown, line 286, renders the same md into the PDF file)
WriteReport ==
    /\ pc = "report"
    /\ md_file' = md
    /\ pc' = "done"
    /\ UNCHANGED <<git, disk, stat, patch, fallback, binaries, changed_files, heavy_files,
                   eng_summary, todos, review_recs, md, prev_md, runs>>
    /\ UNCHANGED lintVars

\* the script is started again over the same checkout: a new process, whose
\* module-level and local names start afresh; the report file stays on disk
Rerun ==
    /\ pc \in {"done", "raised"}
    /\ runs < MaxRuns
    /\ runs' = runs + 1
    /\ prev_md' = md_file
    /\ pc' = "start"
    /\ stat' = <<>> /\ patch' = <<>> /\ fallback' = FALSE
    /\ binaries' = <<>> /\ changed_files' = <<>> /\ heavy_files' = <<>>
    /\ eng_summary' = <<>> /\ todos' = <<>> /\ review_recs' = <<>> /\ md' = <<>>
    /\ UNCHANGED <<git, disk, md_file>>
    /\ UNCHANGED lintVars

NextReview ==
    \/ EnsureFetchHistory
    \/ GetDiffStatAndPatch
    \/ DetectBinaryFiles
    \/ ListChangedFiles
    \/ SizeChecks
    \/ EnglishSummary
    \/ BuildReviewRecommendations
    \/ BuildMarkdownReport
    \/ WriteReport
    \/ Rerun

----------------------------------------------------------------------------
(* The checkouts main() is run over *)

\* text of k <= n lines, each taken from lines and ended by a newline
Texts(lines, n) ==
    {Join([i \in DOMAIN ls |-> ls[i] \o <<"\n">>], <<>>) :
        ls \in UNION {[1..k -> lines] : k \in 0..n}}

Ok(text) == [out |-> text, err |-> <<>>]
Failed(message) == [out |-> <<>>, err |-> message]

ERR_REVISION ==
    <<"f", "a", "t", "a", "l", ":", " ", "a", "m", "b", "i", "g", "u", "o", "u", "s", " ", "a", "r", "g", "u", "m", "e", "n", "t", " ", "'", "H", "E", "A", "D", "~", "1", "'", ":", " ", "u", "n", "k", "n", "o", "w", "n", " ", "r", "e", "v", "i", "s", "i", "o", "n", " ", "o", "r", " ", "p", "a", "t", "h", " ", "n", "o", "t", " ", "i", "n", " ", "t", "h", "e", " ", "w", "o", "r", "k", "i", "n", "g", " ", "t", "r", "e", "e", ".", "\n">>
    \o <<"U", "s", "e", " ", "'", "-", "-", "'", " ", "t", "o", " ", "s", "e", "p", "a", "r", "a", "t", "e", " ", "p", "a", "t", "h", "s", " ", "f", "r", "o", "m", " ", "r", "e", "v", "i", "s", "i", "o", "n", "s", ",", " ", "l", "i", "k", "e", " ", "t", "h", "i", "s", ":", "\n">>
    \o <<"'", "g", "i", "t", " ", "<", "c", "o", "m", "m", "a", "n", "d", ">", " ", "[", "<", "r", "e", "v", "i", "s", "i", "o", "n", ">", ".", ".", ".", "]", " ", "-", "-", " ", "[", "<", "f", "i", "l", "e", ">", ".", ".", ".", "]", "'", "\n">>
ERR_NO_REPO == <<"f", "a", "t", "a", "l", ":", " ", "n", "o", "t", " ", "a", " ", "g", "i", "t", " ", "r", "e", "p", "o", "s", "i", "t", "o", "r", "y", "\n">>
SHOW_HEADER == <<"c", "o", "m", "m", "i", "t", " ", "1", "a", "2", "b", "3", "c", "4", "\n", "\n">>

\* what the git commands of lines 56-61 and 156 print in a checkout whose last
\* commit has stat text s, diff text p and message m:
\*   "normal"        HEAD has a parent
\*   "first_commit"  HEAD has no parent: HEAD~1 is no revision
\*   "no_repo"       the working directory is no git repository
Checkout(kind, s, p, m) ==
    [cmd \in {"diff_stat", "diff_patch", "show_stat", "show_patch", "log"} |->
        IF kind = "no_repo" THEN Failed(ERR_NO_REPO)
        ELSE IF kind = "first_commit" /\ cmd \in {"diff_stat", "diff_patch"}
             THEN Failed(ERR_REVISION)
        ELSE IF cmd \in {"diff_stat", "show_stat"} THEN Ok(s)
        ELSE IF cmd = "diff_patch" THEN Ok(p)
        ELSE IF cmd = "show_patch" THEN Ok(SHOW_HEADER \o p)
        ELSE Ok(m)]

LintIdle ==
    /\ tool_out = <<>>
    /\ lint = [pc |-> "off"]

InitReview(kinds, stats, patches, messages, disks) ==
    /\ \E k \in kinds, s \in stats, p \in patches, m \in messages :
          git = Checkout(k, s, p, m)
    /\ disk \in disks
    /\ pc = "start"
    /\ stat = <<>> /\ patch = <<>> /\ fallback = FALSE
    /\ binaries = <<>> /\ changed_files = <<>> /\ heavy_files = <<>>
    /\ eng_summary = <<>> /\ todos = <<>> /\ review_recs = <<>>
    /\ md = <<>> /\ md_file = <<>> /\ prev_md = <<>>
    /\ runs = 1
    /\ LintIdle

\* lines of git diff --stat
STAT_SRC == <<" ", "s", "r", "c", "/", "a", "p", "p", ".", "p", "y", " ", "|", " ", "3", " ", "+", "+", "-">>
STAT_PY == <<" ", "a", ".", "p", "y", " ", "|", " ", "3", " ", "+", "+", "-">>
STAT_APP == <<" ", "a", "p", "p", "/", "m", "a", "i", "n", ".", "j", "s", " ", "|", " ", "5", " ", "+", "+", "+", "+", "+">>
STAT_DOC == <<" ", "R", "E", "A", "D", "M", "E", ".", "m", "d", " ", "|", " ", "2", " ", "+", "-">>
STAT_TEST == <<" ", "t", "e", "s", "t", "s", "/", "t", "e", "s", "t", "_", "a", "p", "p", ".", "p", "y", " ", "|", " ", "1", " ", "+">>
STAT_NESTED_TEST == <<" ", "p", "k", "g", "/", "t", "e", "s", "t", "s", "/", "d", "a", "t", "a", ".", "t", "x", "t", " ", "|", " ", "1", " ", "+">>
STAT_TEST_PREFIX == <<" ", "t", "e", "s", "t", "_", "u", "t", "i", "l", ".", "s", "h", " ", "|", " ", "1", " ", "+">>
STAT_BIG == <<" ", "d", "a", "t", "a", "/", "m", "o", "d", "e", "l", ".", "b", "i", "n", " ", "|", " ", "B", "i", "n", " ", "0", " ", "-", ">", " ", "6", "0", "0", "0", "0", "0", " ", "b", "y", "t", "e", "s">>
STAT_SUMMARY1 == <<" ", "1", " ", "f", "i", "l", "e", " ", "c", "h", "a", "n", "g", "e", "d", ",", " ", "3", " ", "i", "n", "s", "e", "r", "t", "i", "o", "n", "s", "(", "+", ")">>
STAT_SUMMARY2 == <<" ", "2", " ", "f", "i", "l", "e", "s", " ", "c", "h", "a", "n", "g", "e", "d", ",", " ", "4", " ", "i", "n", "s", "e", "r", "t", "i", "o", "n", "s", "(", "+", ")">>

\* lines of git diff --unified=3
L_HEADER == <<"+", "+", "+", " ", "b", "/", "s", "r", "c", "/", "a", "p", "p", ".", "p", "y">>
L_ADD_FOO == <<"+", "d", "e", "f", " ", "f", "o", "o", "(", "x", ")", ":">>
L_DEL_FOO == <<"-", "d", "e", "f", " ", "f", "o", "o", "(", "x", ")", ":">>
L_ADD_BAR == <<"+", " ", " ", " ", " ", "d", "e", "f", " ", "b", "a", "r", " ", "(", ")", ":">>
L_COMMENTED_DEF == <<"+", "#", " ", "d", "e", "f", " ", "f", "o", "o", "(", "x", ")", ":">>
L_CONTEXT == <<" ", " ", "#", " ", "T", "O", "D", "O", ":", " ", "r", "o", "t", "a", "t", "e", " ", "t", "o", "k", "e", "n">>
L_CONTEXT_SECRET == <<" ", "a", "p", "i", "_", "k", "e", "y", "=", "1", "2", "3">>
L_BINARY == <<"B", "i", "n", "a", "r", "y", " ", "f", "i", "l", "e", "s", " ", "a", "/", "d", "a", "t", "a", "/", "m", "o", "d", "e", "l", ".", "b", "i", "n", " ", "a", "n", "d", " ", "b", "/", "d", "a", "t", "a", "/", "m", "o", "d", "e", "l", ".", "b", "i", "n", " ", "d", "i", "f", "f", "e", "r">>
L_ASSIGN == <<"+", "x", " ", "=", " ", "1">>
L_DEL_TODO == <<"-", "#", " ", "T", "O", "D", "O", ":", " ", "t", "i", "d", "y">>

\* git log -1 --pretty=%B
MSG_SHORT == <<"f", "i", "x", "\n", "\n">>
MSG_LONG == <<"f", "e", "a", "t", "(", "a", "u", "t", "h", ")", ":", " ", "a", "d", "d", " ", "r", "e", "f", "r", "e", "s", "h", "\n", "\n", "l", "o", "n", "g", "e", "r", " ", "b", "o", "d", "y", "\n">>

\* the sizes of the changed files found on disk
DiskSmall == (<<"d", "a", "t", "a", "/", "m", "o", "d", "e", "l", ".", "b", "i", "n">> :> 512000)
DiskLarge == (<<"d", "a", "t", "a", "/", "m", "o", "d", "e", "l", ".", "b", "i", "n">> :> 512001)

\* the lines ended by a newline each
Lines(ls) == Join([i \in DOMAIN ls |-> ls[i] \o <<"\n">>], <<>>)

\* whole checkouts: every way a run can go, on a few commits
Init ==
    InitReview({"normal", "first_commit", "no_repo"},
               {<<>>, Lines(<<STAT_SRC, STAT_BIG, STAT_SUMMARY2>>)},
               Texts({L_ADD_FOO, L_ADD_BAR, L_DEL_TODO, L_BINARY}, MaxLines),
               {MSG_SHORT},
               {DiskSmall, DiskLarge})

\* checkouts that differ in the diff text
InitPatch ==
    InitReview({"normal"},
               {Lines(<<STAT_SRC, STAT_SUMMARY1>>)},
               Texts({L_HEADER, L_ADD_FOO, L_DEL_FOO, L_ADD_BAR, L_COMMENTED_DEF,
                      L_CONTEXT, L_BINARY, L_ASSIGN}, MaxLines),
               {MSG_LONG},
               {DiskSmall})

\* checkouts that differ in the stat text
InitStat ==
    InitReview({"normal"},
               Texts({STAT_PY, STAT_APP, STAT_DOC, STAT_TEST, STAT_NESTED_TEST,
                      STAT_TEST_PREFIX, STAT_SUMMARY1, STAT_SUMMARY2}, MaxStatLines),
               {Lines(<<L_HEADER, L_ASSIGN>>)},
               {MSG_LONG},
               {DiskSmall})

\* checkouts that differ in everything build_review_recommendations reads
InitRecs ==
    InitReview({"normal"},
               {<<>>, Lines(<<STAT_SRC, STAT_BIG, STAT_SUMMARY2>>),
                Lines(<<STAT_TEST, STAT_BIG, STAT_SUMMARY2>>)},
               Texts({L_ADD_FOO, L_DEL_TODO, L_BINARY, L_CONTEXT_SECRET}, MaxLines),
               {MSG_SHORT, MSG_LONG, <<>>},
               {DiskSmall, DiskLarge})

----------------------------------------------------------------------------
(* analyze_code.py.  The script is module-level code: five checks of the   *)
(* same shape (lines 49-52, 54-57, 59-62, 64-67, 69-72), then the          *)
(* consolidated list and the write (lines 75-83).  The emoji of its        *)
(* literals are left out.                                                  *)

\* lines 5-6 of analyze_code.py, GITHUB_REF and GITHUB_SHA not set
lint_branch == ""
lint_sha == ""

\* the titles of the sections of the commands of lines 49, 54, 59, 64, 69
TOOLS == <<"Flake8 Linting", "Pylint Report", "Type Checking (mypy)",
           "Formatting suggestions", "Import sorting check">>

\* run(cmd) of analyze_code.py: result.stdout.strip()
lint_run(i) == Strip(tool_out[i])

\* line 28
IsErrorLine(line) == Contains(Lower(line), <<"e", "r", "r", "o", "r">>) \/ Contains(line, <<"E", ":">>)

\* line 30, reached when line 28 is false
IsFixLine(line) ==
    /\ ~IsErrorLine(line)
    /\ \/ Contains(Lower(line), <<"w", "a", "r", "n", "i", "n", "g">>)
       \/ Contains(line, <<"W", ":">>)
       \/ Contains(Lower(line), <<"s", "u", "g", "g", "e", "s", "t", "i", "o", "n">>)

\* lines 28-29 and 32-33
IsReportedError(line) == ~IsFixLine(line)

\* f"<span style='color:{colour}'>{line}</span>" for each line
Spanned(colour, lines) ==
    [i \in DOMAIN lines |-> <<"<span style='color:", colour, "'>">> \o lines[i] \o <<"</span>">>]

\* lines 35-43: the tuple returned for a non-empty output
Highlighted(tool_name, errors, fixes) ==
    <<Join(<< <<"## ", tool_name, "\n">> >>
           \o (IF errors # <<>> THEN << <<"### Errors">> >> \o Bullets(errors) ELSE <<>>)
           \o (IF fixes # <<>>
               THEN << <<"\n### Suggestions & Fixes">> >> \o Bullets(fixes)
               ELSE <<>>),
           <<"\n">>) \o <<"\n\n">>,
      fixes>>

\* highlight_output(tool_name, output): a str when output is empty (line 21), a
\* 2-tuple otherwise (line 43)
highlight_output(tool_name, output) ==
    IF output = <<>>
    THEN [type |-> "str", value |-> <<"## ", tool_name, "\n- No issues found\n\n">>]
    ELSE [type |-> "tuple",
          value |-> Highlighted(tool_name,
                                Spanned("red", SelectSeq(SplitLines(output), IsReportedError)),
                                Spanned("green", SelectSeq(SplitLines(output), IsFixLine)))]

\* len() of a str held as a sequence of pieces
RECURSIVE CharLen(_)
CharLen(pieces) == IF pieces = <<>> THEN 0 ELSE Len(Head(pieces)) + CharLen(Tail(pieces))

\* whether `section, fixes = ret` binds: a tuple of two items, or a str of two characters
Unpacks(ret) == ret.type = "tuple" \/ CharLen(ret.value) = 2

\* `section, fixes = ret` and the two statements after it; ValueError ends the script
Unpacked(ret) ==
    IF Unpacks(ret)
    THEN lint' = [lint EXCEPT !.summary = @ \o ret.value[1],
                              !.all_fixes = @ \o ret.value[2],
                              !.step = @ + 1]
    ELSE lint' = [lint EXCEPT !.pc = "ValueError"]

\* the check of the tool lint.step
RunCheck ==
    /\ lint.pc = "checks"
    /\ lint.step <= Len(TOOLS)
    /\ Unpacked(highlight_output(TOOLS[lint.step], lint_run(lint.step)))
    /\ UNCHANGED tool_out
    /\ UNCHANGED reviewVars

\* lines 75-83
WriteAnalysis ==
    /\ lint.pc = "checks"
    /\ lint.step > Len(TOOLS)
    /\ lint' = [lint EXCEPT
                   !.pc = "written",
                   !.out_file =
                       lint.summary
                       \o (IF lint.all_fixes # <<>>
                           THEN <<"---\n## Consolidated Updates (Quick Reference)\n">>
                                \o Join([i \in DOMAIN lint.all_fixes |->
                                            <<"- ">> \o lint.all_fixes[i] \o <<"\n">>], <<>>)
                           ELSE <<"---\n## Consolidated Updates (Quick Reference)\n- No fixes required\n">>)]
    /\ UNCHANGED tool_out
    /\ UNCHANGED reviewVars

NextLint == RunCheck \/ WriteAnalysis

\* lines printed by the linters
LINT_WARNING == <<"a", ".", "p", "y", ":", "1", ":", " ", "W", ":", " ", "u", "n", "u", "s", "e", "d", " ", "i", "m", "p", "o", "r", "t">>
LINT_ERROR == <<"a", ".", "p", "y", ":", "2", ":", " ", "e", "r", "r", "o", "r", ":", " ", "b", "a", "d", " ", "t", "y", "p", "e">>
LINT_OTHER == <<"w", "o", "u", "l", "d", " ", "r", "e", "f", "o", "r", "m", "a", "t", " ", "a", ".", "p", "y">>

\* what one linter command prints on stdout
ToolOutputs == {<<>>, Lines(<<LINT_WARNING>>), Lines(<<LINT_ERROR, LINT_OTHER>>)}

ReviewIdle ==
    /\ git = Checkout("no_repo", <<>>, <<>>, <<>>)
    /\ disk = <<>>
    /\ pc = "off"
    /\ stat = <<>> /\ patch = <<>> /\ fallback = FALSE
    /\ binaries = <<>> /\ changed_files = <<>> /\ heavy_files = <<>>
    /\ eng_summary = <<>> /\ todos = <<>> /\ review_recs = <<>>
    /\ md = <<>> /\ md_file = <<>> /\ prev_md = <<>>
    /\ runs = 0

InitLint ==
    /\ tool_out \in [DOMAIN TOOLS -> ToolOutputs]
    /\ lint = [pc |-> "checks", step |-> 1,
               summary |-> <<"# Code Analysis Report -- ", lint_branch, " @ ", lint_sha, "\n\n">>,
               all_fixes |-> <<>>, out_file |-> <<>>]
    /\ ReviewIdle

SpecLint == InitLint /\ [][NextLint]_vars

Next == NextReview

Spec == Init /\ [][Next]_vars
SpecPatch == InitPatch /\ [][Next]_vars
SpecStat == InitStat /\ [][Next]_vars
SpecRecs == InitRecs /\ [][Next]_vars

----------------------------------------------------------------------------
(* C1.  Two runs of main() over the same checkout write the same report.   *)

\* C1: whenever a second or later run over an unchanged checkout has written its
\* report, the report equals the one the run before it wrote.
C1_SameReportOnRerun ==
    (runs >= 2 /\ pc = "done") => md_file = prev_md

\* a report with the value of utcnow() blanked
Untimed(report) == [i \in DOMAIN report |-> IF report[i] \in Clock THEN "now" ELSE report[i]]

\* C1, the timestamp line apart: the rest of the report is the same in both runs.
C1_SameFindingsOnRerun ==
    (runs >= 2 /\ pc = "done") => Untimed(md_file) = Untimed(prev_md)

----------------------------------------------------------------------------
(* C2.  analyze_code.py ends normally whatever the linters print.          *)

\* C2: no check of analyze_code.py ends the script with an exception.
C2_NeverFails == lint.pc # "ValueError"

----------------------------------------------------------------------------
(* C3.  A failed git command counts as no output.                          *)

PrimaryFailed == git["diff_stat"].out = <<>> /\ git["diff_stat"].err # <<>>

\* C3: when git diff HEAD~1 HEAD prints nothing on stdout and an error on stderr,
\* get_diff_stat_and_patch takes the git show fallback, and the error text is
\* neither the stat text, nor the diff text, nor a changed file.
C3_FailedDiffFallsBack ==
    (PrimaryFailed /\ pc \notin {"start", "fetched"}) =>
        /\ fallback
        /\ stat # Strip(git["diff_stat"].err)
        /\ patch # git["diff_patch"].err
        /\ \A i \in DOMAIN changed_files :
              changed_files[i] \notin Range(SplitLines(git["diff_stat"].err))

----------------------------------------------------------------------------
(* C4.  The sections of the report.                                        *)

Built == pc \in {"report", "done"}

IsSectionMark(x) ==
    x \in {H_STAT, NO_STAT, H_SUMMARY, H_TODO, H_BINARY, H_LARGE, H_REVIEW, H_DIFF}

\* the section headings (and the placeholder of the stat block) of a report, in order
SectionMarks(report) == SelectSeq(report, IsSectionMark)

\* how every report ends: the raw diff section
DiffTail == <<H_DIFF, "\n", "'''diff", "\n">> \o Strip(patch) \o <<"\n", "'''">>

\* C4 as stated: every report holds each of the sections stat block, narrative
\* summary, TODO list, binary-file list, large-file list, recommendations and raw
\* diff, in that order, whether or not the list behind a section is empty.
C4_AllSectionsRendered ==
    Built => SectionMarks(md) \in {<<s, H_SUMMARY, H_TODO, H_BINARY, H_LARGE, H_REVIEW, H_DIFF>> :
                                      s \in {H_STAT, NO_STAT}}

\* C4 as amended: the sections of a report are, in this order, the stat block (its
\* placeholder when stat is empty), the narrative summary (with its placeholder
\* line exactly when eng_summary is empty), the TODO list, the binary-file list
\* and the large-file list, each present exactly when its list is not empty, the
\* recommendations, and the raw diff, which ends the report.
C4_SectionsInOrder ==
    Built =>
        /\ SectionMarks(md) =
              <<IF stat # <<>> THEN H_STAT ELSE NO_STAT, H_SUMMARY>>
              \o When(todos # <<>>, H_TODO)
              \o When(binaries # <<>>, H_BINARY)
              \o When(heavy_files # <<>>, H_LARGE)
              \o <<H_REVIEW, H_DIFF>>
        /\ (NO_SUMMARY \in Range(md)) <=> (eng_summary = <<>>)
        /\ Len(md) >= Len(DiffTail)
        /\ SubSeq(md, Len(md) - Len(DiffTail) + 1, Len(md)) = DiffTail

\* a report with an empty TODO list and narrative, and binary and large files
C4_Witness ==
    /\ pc = "done"
    /\ todos = <<>> /\ eng_summary = <<>>
    /\ stat # <<>> /\ binaries # <<>> /\ heavy_files # <<>>
    /\ H_TODO \notin Range(md)

----------------------------------------------------------------------------
(* C5.  Diff texts without added or removed lines.                         *)

\* an added line (starts with "+", not with "+++") or a removed one
IsChangeLine(line) ==
    \/ StartsWith(line, <<"+">>) /\ ~StartsWith(line, <<"+", "+", "+">>)
    \/ StartsWith(line, <<"-">>) /\ ~StartsWith(line, <<"-", "-", "-">>)

NoChangeLines(text) == \A i \in DOMAIN SplitLines(text) : ~IsChangeLine(SplitLines(text)[i])

Collected == pc \notin {"start", "fetched"}

\* C5 as stated: a diff text without added or removed lines yields no finding at
\* all (no narrative entry, TODO marker, binary-file change, possible secret or
\* recommendation derived from them) and the narrative section says that no clear
\* changes were detected.
C5_NoFindingsWithoutChanges ==
    (Collected /\ NoChangeLines(patch)) =>
        /\ pc # "raised"
        /\ eng_summary = <<>> /\ todos = <<>> /\ binaries = <<>>
        /\ Range(review_recs) \cap {REC_TODO, REC_BINARY, REC_DOCS, REC_SECRET} = {}
        /\ Built => NO_SUMMARY \in Range(md)

\* C5 as amended: for a diff text without added or removed lines the scan returns
\* normally with an empty narrative and no TODO marker, no resolve-TODOs
\* recommendation is made and the narrative section of the report holds the
\* no-clear-changes line.
C5_NoNarrativeWithoutChanges ==
    (Collected /\ NoChangeLines(patch)) =>
        /\ pc # "raised"
        /\ eng_summary = <<>> /\ todos = <<>>
        /\ REC_TODO \notin Range(review_recs)
        /\ Built => NO_SUMMARY \in Range(md)

\* a report on a diff text of context and binary lines only
C5_Witness ==
    /\ pc = "done"
    /\ patch # <<>> /\ NoChangeLines(patch)
    /\ binaries # <<>>
    /\ REC_SECRET \in Range(review_recs)
    /\ NO_SUMMARY \in Range(md)

----------------------------------------------------------------------------
(* C6.  The list of recommendations.                                       *)

Recommended == pc \in {"recs", "report", "done"}

ALL_RECS ==
    <<REC_TODO, REC_BINARY, REC_LARGE, REC_TESTS, REC_COMMIT, REC_DOCS, REC_SECRET,
      REC_LINT, REC_REVIEW>>

\* the condition of each recommendation
Holds(rec) ==
    \/ rec = REC_TODO /\ todos # <<>>
    \/ rec = REC_BINARY /\ binaries # <<>>
    \/ rec = REC_LARGE /\ heavy_files # <<>>
    \/ rec = REC_TESTS /\ simple_test_detection(changed_files)
    \/ rec = REC_COMMIT /\ ShortMessage(commit_message_hint)
    \/ rec = REC_DOCS /\ FindAddedDef(patch)
    \/ rec = REC_SECRET /\ SearchSecret(patch)
    \/ rec \in {REC_LINT, REC_REVIEW}

----------------------------------------------------------------------------
(* C7.  One narrative entry per function and direction.                    *)

Summarized == pc \in {"summary", "recs", "report", "done"}

Count(seq, x) == Cardinality({i \in DOMAIN seq : seq[i] = x})

FOO == <<"f", "o", "o">>
BAR == <<"b", "a", "r">>

\* what the lines of the diff texts define
AddsFunction(line, f) == (line = L_ADD_FOO /\ f = FOO) \/ (line = L_ADD_BAR /\ f = BAR)
RemovesFunction(line, f) == line = L_DEL_FOO /\ f = FOO

One(cond) == IF cond THEN 1 ELSE 0

\* C7: the narrative holds one "Added function f" entry if an added line of the
\* diff text defines f and none otherwise, and likewise one "Removed function f"
\* entry for the removed lines.
C7_OneEntryPerFunction ==
    Summarized =>
        \A f \in {FOO, BAR} :
            /\ Count(eng_summary, <<"Added function '">> \o f \o <<"()'.">>)
                   = One(\E i \in DOMAIN SplitLines(patch) : AddsFunction(SplitLines(patch)[i], f))
            /\ Count(eng_summary, <<"Removed function '">> \o f \o <<"()'.">>)
                   = One(\E i \in DOMAIN SplitLines(patch) : RemovesFunction(SplitLines(patch)[i], f))

\* foo defined by two added lines, reported once
C7_Witness ==
    /\ pc = "done"
    /\ Count(SplitLines(patch), L_ADD_FOO) = 2
    /\ Count(eng_summary, <<"Added function '">> \o FOO \o <<"()'.">>) = 1

\* foo added and removed: one entry of each kind
C7_WitnessBoth ==
    /\ pc = "done"
    /\ patch = Lines(<<L_ADD_FOO, L_DEL_FOO>>)
    /\ Len(eng_summary) = 2

----------------------------------------------------------------------------
(* C8.  Missing tests.                                                     *)

\* the changed paths that look like source, and those that look like a test
SOURCE_PATHS == {<<"a", ".", "p", "y">>, <<"a", "p", "p", "/", "m", "a", "i", "n", ".", "j", "s">>, <<"s", "r", "c", "/", "a", "p", "p", ".", "p", "y">>, <<"t", "e", "s", "t", "s", "/", "t", "e", "s", "t", "_", "a", "p", "p", ".", "p", "y">>}
TEST_PATHS == {<<"t", "e", "s", "t", "s", "/", "t", "e", "s", "t", "_", "a", "p", "p", ".", "p", "y">>, <<"p", "k", "g", "/", "t", "e", "s", "t", "s", "/", "d", "a", "t", "a", ".", "t", "x", "t">>, <<"t", "e", "s", "t", "_", "u", "t", "i", "l", ".", "s", "h">>}

\* C8: missing tests are reported exactly when a changed path looks like source
\* and no changed path looks like a test.
C8_MissingTestsExact ==
    Recommended =>
        ((REC_TESTS \in Range(review_recs))
            <=> /\ Range(changed_files) \cap SOURCE_PATHS # {}
                /\ Range(changed_files) \cap TEST_PATHS = {})

\* a source path and a path under a tests directory: no missing tests
C8_Witness ==
    /\ pc = "done"
    /\ changed_files = <<<<"a", ".", "p", "y">>, <<"p", "k", "g", "/", "t", "e", "s", "t", "s", "/", "d", "a", "t", "a", ".", "t", "x", "t">>>>
    /\ REC_TESTS \notin Range(review_recs)

----------------------------------------------------------------------------
(* C9.  The changed files of a stat text.                                  *)

Listed == pc \notin {"start", "fetched", "collected", "binaries", "off"}

\* the path of each stat line that names a file
PATH_OF ==
    (STAT_PY :> <<"a", ".", "p", "y">>) @@ (STAT_APP :> <<"a", "p", "p", "/", "m", "a", "i", "n", ".", "j", "s">>) @@ (STAT_DOC :> <<"R", "E", "A", "D", "M", "E", ".", "m", "d">>)
    @@ (STAT_TEST :> <<"t", "e", "s", "t", "s", "/", "t", "e", "s", "t", "_", "a", "p", "p", ".", "p", "y">>) @@ (STAT_NESTED_TEST :> <<"p", "k", "g", "/", "t", "e", "s", "t", "s", "/", "d", "a", "t", "a", ".", "t", "x", "t">>)
    @@ (STAT_TEST_PREFIX :> <<"t", "e", "s", "t", "_", "u", "t", "i", "l", ".", "s", "h">>) @@ (STAT_SRC :> <<"s", "r", "c", "/", "a", "p", "p", ".", "p", "y">>)
    @@ (STAT_BIG :> <<"d", "a", "t", "a", "/", "m", "o", "d", "e", "l", ".", "b", "i", "n">>)

NamesFile(line) == line \in DOMAIN PATH_OF

\* the paths of the lines of a stat text, in order, the summary lines left out
PathsOf(text) ==
    [i \in DOMAIN SelectSeq(SplitLines(text), NamesFile) |->
        PATH_OF[SelectSeq(SplitLines(text), NamesFile)[i]]]

\* C9: the changed files are the trimmed paths of the stat lines that name a file,
\* in the order of the stat text, and no entry stands for a summary line.
C9_ChangedFilesArePaths ==
    Listed => changed_files = PathsOf(git["diff_stat"].out)

\* the stat text "a.py | 3 ++-" followed by "1 file changed, 3 insertions(+)"
C9_Witness ==
    /\ pc = "files"
    /\ git["diff_stat"].out = Lines(<<STAT_PY, STAT_SUMMARY1>>)
    /\ changed_files = <<<<"a", ".", "p", "y">>>>

----------------------------------------------------------------------------
(* C10.  The two detectors of added functions.                             *)

IsAddedEntry(entry) == entry # <<>> /\ entry[1] = "Added function '"

\* C10: the docstring reminder is recommended exactly when the narrative reports
\* an added function.
C10_DetectorsAgree ==
    Recommended =>
        ((REC_DOCS \in Range(review_recs))
            <=> \E i \in DOMAIN eng_summary : IsAddedEntry(eng_summary[i]))

----------------------------------------------------------------------------
(* C11.  Added lines before the first file header.                         *)

\* C11: english_summary_from_patch raises on no diff text, an added line with a
\* class definition, a print call or an assignment that stands before every
\* "+++ b/<path>" line included: main() never ends with its exception.
C11_NeverRaises == pc # "raised"

====
